---- MODULE Spec2Model ----
(***************************************************************************)
(* DRBD flexvolume plugin: the action dispatcher of pkg/api/api.go         *)
(* (FlexVolumeApi.Call and its handlers) against the cluster manager and   *)
(* the mount table, which the handlers reach through package drbd.         *)
(* One invocation is one process: Call dispatches on s[0], the handler     *)
(* validates its arguments, parses the options, calls package drbd and     *)
(* returns one marshalled envelope and an exit code.                       *)
(***************************************************************************)
EXTENDS Naturals, Sequences, FiniteSets, TLC

VARIABLES
    pc,         \* position of the running invocation ("idle": no process)
    args,       \* the argument vector s passed to Call
    out,        \* the (string, int) values returned by Call, in order
    calls,      \* package drbd / syscall requests issued by this invocation
    polls,      \* the manager's answers to this invocation's polling queries
    resource,   \* the drbd.Resource the handler built
    fsType,     \* Mounter.FSType of the handler
    assigned,   \* cluster manager: (resource, node) pairs that are assigned
    devReady,   \* cluster manager: resources whose device path is materialized
    mounts,     \* mount table: target path -> backing device ("" = not mounted)
    pre,        \* the external state when the invocation started
    fault,      \* whether a package drbd call of this invocation returned an error
    hist        \* the orchestrator's record of the invocations that ended

vars == <<pc, args, out, calls, polls, resource, fsType, assigned, devReady, mounts, pre,
          fault, hist>>

(***************************************************************************)
(* The inputs the invocations are drawn from.                              *)
(***************************************************************************)
Resources == {"r0", "r1"}
Nodes == {"nodeA"}
\* how many target paths the mount table is explored over
NumPaths == 2
Paths == {"/mnt/" \o ToString(i) : i \in 1..NumPaths}
\* how many surplus arguments an argument vector may carry past the expected ones
MaxSurplus == 1

Opt_r0 == "{\"resource\":\"r0\"}"
Opt_r1 == "{\"resource\":\"r1\",\"kubernetes.io/fsType\":\"ext4\"}"
Opt_empty == "{}"
Opt_bad == "{resource:r0"
OptionStrings == {Opt_r0, Opt_r1, Opt_empty, Opt_bad}

NoResource == [Name |-> "", NodeName |-> ""]

DevPathOf(name) == IF name = "r0" THEN "/dev/drbd0" ELSE "/dev/drbd1"
Devices == {DevPathOf(r) : r \in Resources}

\* every prefix of a sequence, the empty one excluded
Prefixes(s) == {SubSeq(s, 1, n) : n \in 1..Len(s)}

\* s followed by k surplus arguments
Pad(s, k) == s \o [i \in 1..k |-> "extra"]

FullVectors ==
    {<<"init">>, <<"waitforattach", "/dev/drbd0", "nodeA">>, <<"foo">>, <<"">>}
    \cup {<<"attach", o, n>> : o \in OptionStrings, n \in Nodes}
    \cup {<<"detach", r, n>> : r \in Resources, n \in Nodes}
    \cup {<<"mountdevice", p, "/dev/drbd0", o>> : p \in Paths, o \in OptionStrings}
    \cup {<<a, p>> : a \in {"unmountdevice", "unmount"}, p \in Paths}
    \cup {<<"getvolumename", o>> : o \in OptionStrings}
    \cup {<<"isattached", o, n>> : o \in OptionStrings, n \in Nodes}

ArgVectors == {<<>>} \cup UNION {Prefixes(Pad(v, MaxSurplus)) : v \in FullVectors}

(***************************************************************************)
(* Formatting, errors and the response structs.                            *)
(***************************************************************************)
\* fmt's %q of a string without characters that need escaping
Quote(s) == "\"" \o s \o "\""

RECURSIVE JoinSpace(_)
JoinSpace(s) ==
    IF Len(s) = 0 THEN ""
    ELSE IF Len(s) = 1 THEN s[1]
    ELSE s[1] \o " " \o JoinSpace(Tail(s))

\* fmt's %s of a []string
FormatSlice(s) == "[" \o JoinSpace(s) \o "]"

flexAPIErr_Error(message) == "DRBD Flexvoume API: " \o message

response(status, message) == [Status |-> status, Message |-> message]

attachResponse(resp, device) ==
    [Status |-> resp.Status, Message |-> resp.Message, Device |-> device]

isAttachedResponse(resp, attached) ==
    [Status |-> resp.Status, Message |-> resp.Message, Attached |-> attached]

getVolNameResponse(resp, volumeName) ==
    [Status |-> resp.Status, Message |-> resp.Message, VolumeName |-> volumeName]

\* json.Marshal of a response struct: one <<key, value>> pair per field, in
\* declaration order, under the field's json tag; no field is omitted.
json_Marshal(v) ==
    << <<"status", v.Status>>, <<"message", v.Message>> >>
    \o (IF "Device" \in DOMAIN v THEN << <<"device", v.Device>> >> ELSE <<>>)
    \o (IF "Attached" \in DOMAIN v THEN << <<"attached", v.Attached>> >> ELSE <<>>)
    \o (IF "VolumeName" \in DOMAIN v THEN << <<"volumeName", v.VolumeName>> >> ELSE <<>>)

\* the (string, int) a handler returns
Return(v, code) == [res |-> json_Marshal(v), code |-> code]

options(fs, rw, res) == [FsType |-> fs, Readwrite |-> rw, Resource |-> res]

\* json.Unmarshal into an options struct
json_Unmarshal(s) ==
    IF s = Opt_r0 THEN [err |-> FALSE, opts |-> options("", "", "r0")]
    ELSE IF s = Opt_r1 THEN [err |-> FALSE, opts |-> options("ext4", "", "r1")]
    ELSE IF s = Opt_empty THEN [err |-> FALSE, opts |-> options("", "", "")]
    ELSE [err |-> TRUE, opts |-> options("", "", "")]

\* parseOptions with json.Unmarshal's error dropped
parseOptions_IgnoreErr(s) ==
    [opts |-> json_Unmarshal(s).opts, err |-> FALSE, msg |-> ""]

parseOptions(s) ==
    LET u == json_Unmarshal(s) IN
    IF u.err
    THEN [opts |-> u.opts, err |-> TRUE,
          msg |-> flexAPIErr_Error("couldn't parse options from " \o s)]
    ELSE [opts |-> u.opts, err |-> FALSE, msg |-> ""]

\* tooFewArgsResponse with the exit code of an operational failure
tooFewArgsResponse_Exit1(s) ==
    Return(response("Failure",
        flexAPIErr_Error(s[1] \o ": too few arguments passed: " \o FormatSlice(s))), 1)

tooFewArgsResponse(s) ==
    Return(response("Failure",
        flexAPIErr_Error(s[1] \o ": too few arguments passed: " \o FormatSlice(s))), 2)

parseFailedResponse(p) == Return(response("Failure", p.msg), 2)


noActionResponse ==
    Return(response("Failure",
        "No driver action! Valid actions are: init, attach, detach, mountdevice, unmountdevice, getvolumename, isattached"), 2)

\* the default branch reporting Failure instead of Not supported
unsupportedResponse_Failure(action) ==
    Return(response("Failure", "Unsupported driver action: " \o Quote(action)), 2)

unsupportedResponse(action) ==
    Return(response("Not supported", "Unsupported driver action: " \o Quote(action)), 2)

\* a Success envelope that carries a message
successResponse_WithMessage == Return(response("Success", "ok"), 0)

successResponse == Return(response("Success", ""), 0)

\* the polling budget attach hands to drbd.WaitForDevPath
attachMaxAttempts == 4
\* the polling budget isAttached hands to drbd.WaitForAssignment
isAttachedMaxAttempts == 4

(***************************************************************************)
(* Package drbd: the cluster manager client, the two pollers and the       *)
(* mounter, as the handlers see them.                                      *)
(***************************************************************************)
Pair(res) == <<res.Name, res.NodeName>>

\* the text of an error package drbd returns
drbdErrorText(op, name) == "drbd: " \o op \o " failed for resource " \o Quote(name)

\* AssignRes: TRUE = an error is returned. The manager rejects a resource it
\* does not know and may reject any request.
AssignResOutcomes(res) ==
    IF res.Name \in Resources THEN {FALSE, TRUE} ELSE {TRUE}

\* UnassignRes: a resource that is not assigned is reported as success.
UnassignResOutcomes(res) ==
    IF Pair(res) \in assigned THEN {FALSE, TRUE} ELSE {FALSE}

\* one device-path query: empty until the manager has materialized the device
queryDevicePathOutcomes(res) ==
    LET found == [err |-> FALSE, path |-> DevPathOf(res.Name)]
        none == [err |-> FALSE, path |-> ""]
        failed == [err |-> TRUE, path |-> ""]
    IN  IF res.Name \in devReady THEN {found, failed}
        ELSE IF Pair(res) \in assigned THEN {none, found, failed}
        ELSE {none, failed}

\* one assignment query
queryAssignedOutcomes(res) ==
    {[err |-> FALSE, assigned |-> Pair(res) \in assigned],
     [err |-> TRUE, assigned |-> FALSE]}

\* WaitForDevPath after the answers `answers`: the first non-empty path ends
\* the loop, a manager error ends it, and so does the last attempt (timeout).
WaitForDevPath(answers, maxAttempts) ==
    LET last == answers[Len(answers)] IN
    IF last.err THEN [done |-> TRUE, err |-> TRUE, path |-> ""]
    ELSE IF last.path # "" THEN [done |-> TRUE, err |-> FALSE, path |-> last.path]
    ELSE IF Len(answers) >= maxAttempts THEN [done |-> TRUE, err |-> TRUE, path |-> ""]
    ELSE [done |-> FALSE, err |-> FALSE, path |-> ""]

\* WaitForAssignment after the answers `answers`: true as soon as the manager
\* reports assigned, false (no error) once the attempts are used up.
WaitForAssignment(answers, maxAttempts) ==
    LET last == answers[Len(answers)] IN
    IF last.err THEN [done |-> TRUE, err |-> TRUE, ok |-> FALSE]
    ELSE IF last.assigned THEN [done |-> TRUE, err |-> FALSE, ok |-> TRUE]
    ELSE IF Len(answers) >= maxAttempts THEN [done |-> TRUE, err |-> FALSE, ok |-> FALSE]
    ELSE [done |-> FALSE, err |-> FALSE, ok |-> FALSE]

\* Mounter.Mount(path): "noop" = already mounted from the resource's device,
\* "mounted" = the mount was performed, "error" = it failed.
MountOutcomes(res, path) ==
    IF res.Name \notin devReady THEN {"error"}
    ELSE IF mounts[path] = DevPathOf(res.Name) THEN {"noop"}
    ELSE {"mounted", "error"}

\* Mounter.UnMount(path): "noop" = not mounted, "unmounted", "error" = busy.
UnMountOutcomes(path) ==
    IF mounts[path] = "" THEN {"noop"} ELSE {"unmounted", "error"}

External == [assigned |-> assigned, devReady |-> devReady, mounts |-> mounts]

(***************************************************************************)
(* What each handler returns for each result of its package drbd call.     *)
(***************************************************************************)
attachAssignFailed(res) ==
    Return(response("Failure",
        flexAPIErr_Error("attach: failed to assign resource " \o Quote(res.Name))), 1)

\* attach answering with a plain response, without the device
attachDevPathResult_NoDevice(path, err, res) ==
    IF err
    THEN Return(response("Failure",
            flexAPIErr_Error("attach: unable to find device path for resource "
                             \o Quote(res.Name))), 1)
    ELSE Return(response("Success", ""), 0)

\* attach dropping WaitForDevPath's error
attachDevPathResult_IgnoreErr(path, err, res) ==
    Return(attachResponse(response("Success", ""), path), 0)

attachDevPathResult(path, err, res) ==
    IF err
    THEN Return(response("Failure",
            flexAPIErr_Error("attach: unable to find device path for resource "
                             \o Quote(res.Name))), 1)
    ELSE Return(attachResponse(response("Success", ""), path), 0)

\* detach with the error test inverted
detachResult_Inverted(err, res) ==
    IF ~err
    THEN Return(response("Failure", drbdErrorText("unassign", res.Name)), 2)
    ELSE Return(response("Success", ""), 0)

detachResult(err, res) ==
    IF err
    THEN Return(response("Failure", drbdErrorText("unassign", res.Name)), 2)
    ELSE successResponse

\* mountDevice with the error test inverted
mountDeviceResult_Inverted(err, res) ==
    IF ~err
    THEN Return(response("Failure",
            flexAPIErr_Error("mountDevice: " \o Quote(drbdErrorText("mount", res.Name)))), 2)
    ELSE Return(response("Success", ""), 0)

mountDeviceResult(err, res) ==
    IF err
    THEN Return(response("Failure",
            flexAPIErr_Error("mountDevice: " \o Quote(drbdErrorText("mount", res.Name)))), 2)
    ELSE successResponse

\* unmount reporting its failure with the exit code of success
unmountResult_Exit0(err, path) ==
    IF err
    THEN Return(response("Failure",
            flexAPIErr_Error("unmount: " \o drbdErrorText("unmount", path))), 0)
    ELSE Return(response("Success", ""), 0)

unmountResult(err, path) ==
    IF err
    THEN Return(response("Failure",
            flexAPIErr_Error("unmount: " \o drbdErrorText("unmount", path))), 1)
    ELSE successResponse

getVolumeNameResult(opts) ==
    Return(getVolNameResponse(response("Success", ""), opts.Resource), 0)

\* isAttached without the test of WaitForAssignment's boolean
isAttachedResult_IgnoreOk(ok, err, res) ==
    IF err
    THEN Return(response("Failure", drbdErrorText("list-assignments", res.Name)), 2)
    ELSE Return(isAttachedResponse(response("Success", ""), "true"), 0)

isAttachedResult(ok, err, res) ==
    IF err
    THEN Return(response("Failure", drbdErrorText("list-assignments", res.Name)), 2)
    ELSE IF ~ok
    THEN Return(response("Failure",
            flexAPIErr_Error("resource " \o Quote(res.Name) \o " not attached")), 2)
    ELSE Return(isAttachedResponse(response("Success", ""), "true"), 0)

\* the switch of Call: the handler an action name selects
Dispatch(action) ==
    CASE action = "init" -> "init"
      [] action = "attach" -> "attach"
      [] action = "waitforattach" -> "waitForAttach"
      [] action = "detach" -> "detach"
      [] action = "mountdevice" -> "mountDevice"
      [] action = "unmountdevice" -> "unmountDevice"
      [] action = "unmount" -> "unmount"
      [] action = "getvolumename" -> "getVolumeName"
      [] action = "isattached" -> "isAttached"
      [] OTHER -> "default"

(***************************************************************************)
(* The state machine.                                                      *)
(***************************************************************************)
Init ==
    /\ pc = "idle"
    /\ args = <<>>
    /\ out = <<>>
    /\ calls = <<>>
    /\ polls = <<>>
    /\ resource = NoResource
    /\ fsType = ""
    /\ assigned = {}
    /\ devReady = {}
    /\ mounts = [p \in Paths |-> ""]
    /\ pre = [assigned |-> {}, devReady |-> {}, mounts |-> [p \in Paths |-> ""]]
    /\ fault = FALSE
    /\ hist = <<>>

\* the handler returns r: the invocation's one envelope and exit code
Emit(r) ==
    /\ out' = Append(out, r)
    /\ pc' = "done"

\* Call(s): a new process runs Call on its argument vector
Call(s) ==
    /\ pc = "idle"
    /\ args' = s
    /\ pre' = External
    /\ IF Len(s) < 1
       THEN Emit(noActionResponse)
       ELSE IF Dispatch(s[1]) = "default"
       THEN Emit(unsupportedResponse(s[1]))
       ELSE pc' = Dispatch(s[1]) /\ out' = out
    /\ UNCHANGED <<calls, polls, resource, fsType, assigned, devReady, mounts, fault, hist>>

init ==
    /\ pc = "init"
    /\ Emit(successResponse)
    /\ UNCHANGED <<args, calls, polls, resource, fsType, assigned, devReady, mounts, pre, fault, hist>>

waitForAttach ==
    /\ pc = "waitForAttach"
    /\ Emit(successResponse)
    /\ UNCHANGED <<args, calls, polls, resource, fsType, assigned, devReady, mounts, pre, fault, hist>>

\* attach up to its first package drbd call
attach ==
    /\ pc = "attach"
    /\ IF Len(args) < 3
       THEN Emit(tooFewArgsResponse(args)) /\ resource' = resource
       ELSE LET p == parseOptions(args[2]) IN
            IF p.err
            THEN Emit(parseFailedResponse(p)) /\ resource' = resource
            ELSE /\ resource' = [Name |-> p.opts.Resource, NodeName |-> args[3]]
                 /\ pc' = "attach_AssignRes"
                 /\ out' = out
    /\ UNCHANGED <<args, calls, polls, fsType, assigned, devReady, mounts, pre, fault, hist>>

\* attach going on to the device path although AssignRes returned an error
attach_AssignRes_IgnoreErr ==
    /\ pc = "attach_AssignRes"
    /\ calls' = Append(calls, "AssignRes")
    /\ \E err \in AssignResOutcomes(resource) :
         /\ assigned' = (IF err THEN assigned ELSE assigned \cup {Pair(resource)})
         /\ fault' = err
         /\ pc' = "attach_WaitForDevPath"
         /\ out' = out
    /\ UNCHANGED <<args, polls, resource, fsType, devReady, mounts, pre, hist>>

\* drbd.AssignRes(resource) and attach's handling of its error
attach_AssignRes ==
    /\ pc = "attach_AssignRes"
    /\ calls' = Append(calls, "AssignRes")
    /\ \E err \in AssignResOutcomes(resource) :
         IF err
         THEN Emit(attachAssignFailed(resource)) /\ assigned' = assigned /\ fault' = TRUE
         ELSE /\ assigned' = assigned \cup {Pair(resource)}
              /\ pc' = "attach_WaitForDevPath"
              /\ out' = out
              /\ fault' = fault
    /\ UNCHANGED <<args, polls, resource, fsType, devReady, mounts, pre, hist>>

\* attach handing WaitForDevPath a budget of one attempt more
attach_WaitForDevPath_OneMore ==
    /\ pc = "attach_WaitForDevPath"
    /\ calls' = Append(calls, "queryDevicePath")
    /\ \E q \in queryDevicePathOutcomes(resource) :
         /\ polls' = Append(polls, q)
         /\ devReady' = (IF q.path # "" THEN devReady \cup {resource.Name} ELSE devReady)
         /\ LET w == WaitForDevPath(polls', attachMaxAttempts + 1) IN
            /\ fault' = (fault \/ w.err)
            /\ IF w.done
               THEN Emit(attachDevPathResult(w.path, w.err, resource))
               ELSE pc' = pc /\ out' = out
    /\ UNCHANGED <<args, resource, fsType, assigned, mounts, pre, hist>>

\* one poll of drbd.WaitForDevPath(resource, 4) and, when the loop ends,
\* attach's handling of its result
attach_WaitForDevPath ==
    /\ pc = "attach_WaitForDevPath"
    /\ calls' = Append(calls, "queryDevicePath")
    /\ \E q \in queryDevicePathOutcomes(resource) :
         /\ polls' = Append(polls, q)
         /\ devReady' = (IF q.path # "" THEN devReady \cup {resource.Name} ELSE devReady)
         /\ LET w == WaitForDevPath(polls', attachMaxAttempts) IN
            /\ fault' = (fault \/ w.err)
            /\ IF w.done
               THEN Emit(attachDevPathResult(w.path, w.err, resource))
               ELSE pc' = pc /\ out' = out
    /\ UNCHANGED <<args, resource, fsType, assigned, mounts, pre, hist>>

\* detach up to its package drbd call
detach ==
    /\ pc = "detach"
    /\ IF Len(args) < 3
       THEN Emit(tooFewArgsResponse(args)) /\ resource' = resource
       ELSE /\ resource' = [Name |-> args[2], NodeName |-> args[3]]
            /\ pc' = "detach_UnassignRes"
            /\ out' = out
    /\ UNCHANGED <<args, calls, polls, fsType, assigned, devReady, mounts, pre, fault, hist>>

\* drbd.UnassignRes(resource) and detach's handling of its error
detach_UnassignRes ==
    /\ pc = "detach_UnassignRes"
    /\ calls' = Append(calls, "UnassignRes")
    /\ \E err \in UnassignResOutcomes(resource) :
         /\ assigned' = (IF err THEN assigned ELSE assigned \ {Pair(resource)})
         /\ devReady' = (IF \E n \in Nodes : <<resource.Name, n>> \in assigned'
                         THEN devReady ELSE devReady \ {resource.Name})
         /\ fault' = err
         /\ Emit(detachResult(err, resource))
    /\ UNCHANGED <<args, polls, resource, fsType, mounts, pre, hist>>

\* mountDevice up to its package drbd call
mountDevice ==
    /\ pc = "mountDevice"
    /\ IF Len(args) < 4
       THEN Emit(tooFewArgsResponse(args)) /\ UNCHANGED <<resource, fsType>>
       ELSE LET p == parseOptions(args[4]) IN
            IF p.err
            THEN Emit(parseFailedResponse(p)) /\ UNCHANGED <<resource, fsType>>
            ELSE /\ resource' = [Name |-> p.opts.Resource, NodeName |-> ""]
                 /\ fsType' = p.opts.FsType
                 /\ pc' = "mountDevice_Mount"
                 /\ out' = out
    /\ UNCHANGED <<args, calls, polls, assigned, devReady, mounts, pre, fault, hist>>

\* mounter.Mount(s[1]) and mountDevice's handling of its error
mountDevice_Mount ==
    /\ pc = "mountDevice_Mount"
    /\ \E o \in MountOutcomes(resource, args[2]) :
         /\ calls' = (IF o = "noop" THEN Append(calls, "Mount")
                      ELSE calls \o <<"Mount", "mount(8)">>)
         /\ mounts' = (IF o = "mounted"
                       THEN [mounts EXCEPT ![args[2]] = DevPathOf(resource.Name)]
                       ELSE mounts)
         /\ fault' = (o = "error")
         /\ Emit(mountDeviceResult(o = "error", resource))
    /\ UNCHANGED <<args, polls, resource, fsType, assigned, devReady, pre, hist>>

\* unmountDevice answering Success without calling unmount
unmountDevice_Noop ==
    /\ pc = "unmountDevice"
    /\ Emit(successResponse)
    /\ UNCHANGED <<args, calls, polls, resource, fsType, assigned, devReady, mounts, pre, fault, hist>>

unmountDevice ==
    /\ pc = "unmountDevice"
    /\ pc' = "unmount"
    /\ UNCHANGED <<args, out, calls, polls, resource, fsType, assigned, devReady, mounts, pre, fault, hist>>

\* unmount up to its package drbd call
unmount ==
    /\ pc = "unmount"
    /\ IF Len(args) < 2
       THEN Emit(tooFewArgsResponse(args))
       ELSE pc' = "unmount_UnMount" /\ out' = out
    /\ UNCHANGED <<args, calls, polls, resource, fsType, assigned, devReady, mounts, pre, fault, hist>>

\* umounter.UnMount(s[1]) and unmount's handling of its error
unmount_UnMount ==
    /\ pc = "unmount_UnMount"
    /\ \E o \in UnMountOutcomes(args[2]) :
         /\ calls' = (IF o = "noop" THEN Append(calls, "UnMount")
                      ELSE calls \o <<"UnMount", "umount(8)">>)
         /\ mounts' = (IF o = "unmounted" THEN [mounts EXCEPT ![args[2]] = ""] ELSE mounts)
         /\ fault' = (o = "error")
         /\ Emit(unmountResult(o = "error", args[2]))
    /\ UNCHANGED <<args, polls, resource, fsType, assigned, devReady, pre, hist>>

getVolumeName ==
    /\ pc = "getVolumeName"
    /\ IF Len(args) < 2
       THEN Emit(tooFewArgsResponse(args))
       ELSE LET p == parseOptions(args[2]) IN
            IF p.err
            THEN Emit(parseFailedResponse(p))
            ELSE Emit(getVolumeNameResult(p.opts))
    /\ UNCHANGED <<args, calls, polls, resource, fsType, assigned, devReady, mounts, pre, fault, hist>>

\* isAttached up to its package drbd call
isAttached ==
    /\ pc = "isAttached"
    /\ IF Len(args) < 3
       THEN Emit(tooFewArgsResponse(args)) /\ resource' = resource
       ELSE LET p == parseOptions(args[2]) IN
            IF p.err
            THEN Emit(parseFailedResponse(p)) /\ resource' = resource
            ELSE /\ resource' = [Name |-> p.opts.Resource, NodeName |-> args[3]]
                 /\ pc' = "isAttached_WaitForAssignment"
                 /\ out' = out
    /\ UNCHANGED <<args, calls, polls, fsType, assigned, devReady, mounts, pre, fault, hist>>

\* one poll of drbd.WaitForAssignment(resource, 4) and, when the loop ends,
\* isAttached's handling of its result
isAttached_WaitForAssignment ==
    /\ pc = "isAttached_WaitForAssignment"
    /\ calls' = Append(calls, "queryAssigned")
    /\ \E q \in queryAssignedOutcomes(resource) :
         /\ polls' = Append(polls, q)
         /\ LET w == WaitForAssignment(polls', isAttachedMaxAttempts) IN
            /\ fault' = (fault \/ w.err)
            /\ IF w.done
               THEN Emit(isAttachedResult(w.ok, w.err, resource))
               ELSE pc' = pc /\ out' = out
    /\ UNCHANGED <<args, resource, fsType, assigned, devReady, mounts, pre, hist>>

\* the process exits; nothing of the invocation is kept
Exit ==
    /\ pc = "done"
    /\ pc' = "idle"
    /\ args' = <<>>
    /\ out' = <<>>
    /\ calls' = <<>>
    /\ polls' = <<>>
    /\ resource' = NoResource
    /\ fsType' = ""
    /\ pre' = External
    /\ fault' = FALSE
    /\ UNCHANGED <<assigned, devReady, mounts, hist>>

Next ==
    \/ \E s \in ArgVectors : Call(s)
    \/ init
    \/ waitForAttach
    \/ attach
    \/ attach_AssignRes
    \/ attach_WaitForDevPath
    \/ detach
    \/ detach_UnassignRes
    \/ mountDevice
    \/ mountDevice_Mount
    \/ unmountDevice
    \/ unmount
    \/ unmount_UnMount
    \/ getVolumeName
    \/ isAttached
    \/ isAttached_WaitForAssignment
    \/ Exit

Spec == Init /\ [][Next]_vars

(***************************************************************************)
(* One resource's lifecycle as the orchestrator drives it: the invocations *)
(* that attach, mount, unmount and detach r0, in any order, each of which  *)
(* the orchestrator may kill before it returns, and each of which it       *)
(* records when it ends.                                                   *)
(***************************************************************************)
\* how many invocations the orchestrator's record holds
MaxInvocations == 4

LifecyclePath == "/mnt/1"

LifecycleVectors ==
    {<<"attach", Opt_r0, "nodeA">>,
     <<"mountdevice", LifecyclePath, "/dev/drbd0", Opt_r0>>,
     <<"unmount", LifecyclePath>>,
     <<"unmountdevice", LifecyclePath>>,
     <<"detach", "r0", "nodeA">>}

\* the orchestrator kills the process before Call has returned
Kill ==
    /\ pc \notin {"idle", "done", "killed"}
    /\ pc' = "killed"
    /\ UNCHANGED <<args, out, calls, polls, resource, fsType, assigned, devReady, mounts,
                   pre, fault, hist>>

\* the process is gone (returned or killed): the orchestrator records how it
\* ended, and nothing of the invocation is kept
ExitRecorded ==
    /\ pc \in {"done", "killed"}
    /\ hist' = Append(hist, [args |-> args, out |-> out, fault |-> fault])
    /\ pc' = "idle"
    /\ args' = <<>>
    /\ out' = <<>>
    /\ calls' = <<>>
    /\ polls' = <<>>
    /\ resource' = NoResource
    /\ fsType' = ""
    /\ pre' = External
    /\ fault' = FALSE
    /\ UNCHANGED <<assigned, devReady, mounts>>

NextLifecycle ==
    \/ \E s \in LifecycleVectors : Len(hist) < MaxInvocations /\ Call(s)
    \/ attach
    \/ attach_AssignRes
    \/ attach_WaitForDevPath
    \/ detach
    \/ detach_UnassignRes
    \/ mountDevice
    \/ mountDevice_Mount
    \/ unmountDevice
    \/ unmount
    \/ unmount_UnMount
    \/ Kill
    \/ ExitRecorded

SpecLifecycle == Init /\ [][NextLifecycle]_vars

TypeOK ==
    /\ pc \in {"idle", "done", "killed", "init", "waitForAttach", "attach", "attach_AssignRes",
               "attach_WaitForDevPath", "detach", "detach_UnassignRes", "mountDevice",
               "mountDevice_Mount", "unmountDevice", "unmount", "unmount_UnMount",
               "getVolumeName", "isAttached", "isAttached_WaitForAssignment"}
    /\ args \in ArgVectors
    /\ Len(out) <= 1
    /\ assigned \subseteq Resources \X Nodes
    /\ devReady \subseteq Resources
    /\ mounts \in [Paths -> Devices \cup {""}]

(***************************************************************************)
(* What the properties read off a finished invocation.                     *)
(***************************************************************************)
Done == pc = "done" /\ Len(out) = 1

\* the value the envelope carries under `key` ("<absent>" when it has no such key)
Field(env, key) ==
    IF \E i \in 1..Len(env) : env[i][1] = key
    THEN env[CHOOSE i \in 1..Len(env) : env[i][1] = key][2]
    ELSE "<absent>"

Status == Field(out[1].res, "status")
Message == Field(out[1].res, "message")
ExitCode == out[1].code

\* the number of extra arguments an action requires
RequiredArgs(action) ==
    IF action \in {"attach", "detach", "isattached"} THEN 2
    ELSE IF action = "mountdevice" THEN 3
    ELSE IF action \in {"unmountdevice", "unmount", "getvolumename"} THEN 1
    ELSE 0

TooFew(s) == Len(s) = 0 \/ Len(s) < 1 + RequiredArgs(s[1])

\* C1: an invocation with fewer than the required arguments (or with no
\* argument at all) issues no manager and no mount call at any point, leaves
\* the external state as it found it, and ends with a Failure envelope and
\* exit code 2.
C1_TooFewArgsFailNoEffect ==
    (pc # "idle" /\ TooFew(args)) =>
        /\ calls = <<>>
        /\ External = pre
        /\ pc \in {"done", "attach", "detach", "isAttached", "mountDevice",
                   "unmountDevice", "unmount", "getVolumeName"}
        /\ Done => (Status = "Failure" /\ ExitCode = 2)

\* C1 witness: mountdevice with two of its three arguments has returned while
\* a resource is assigned and a path is mounted
C1_Witness ==
    /\ Done
    /\ Len(args) = 3
    /\ args[1] = "mountdevice"
    /\ assigned # {}
    /\ \E p \in Paths : mounts[p] # ""

C1_WitnessEmpty == Done /\ args = <<>> /\ ExitCode = 2

SupportedActions ==
    {"init", "attach", "waitforattach", "detach", "mountdevice", "unmountdevice",
     "unmount", "getvolumename", "isattached"}

Unsupported(s) == Len(s) >= 1 /\ s[1] \notin SupportedActions

\* C2 as stated: an action name outside the fixed set yields status
\* `NotSupported`, the message `Unsupported driver action: "<action>"`, exit
\* code 2 and no manager or mount call.
C2_Original ==
    (Done /\ Unsupported(args)) =>
        /\ Status = "NotSupported"
        /\ Message = "Unsupported driver action: " \o Quote(args[1])
        /\ ExitCode = 2
        /\ calls = <<>>

\* C2 amended: an action name outside the fixed set yields the status string
\* `Not supported` (distinct from `Failure`), the message
\* `Unsupported driver action: "<action>"`, exit code 2, no manager or mount
\* call, and an unchanged external state.
C2_UnsupportedAction ==
    (pc # "idle" /\ Unsupported(args)) =>
        /\ Done
        /\ Status = "Not supported"
        /\ Status # "Failure"
        /\ Message = "Unsupported driver action: " \o Quote(args[1])
        /\ ExitCode = 2
        /\ calls = <<>>
        /\ External = pre

\* C2 witness: the action "foo" has been answered while a resource is assigned
C2_Witness == Done /\ Len(args) >= 1 /\ args[1] = "foo" /\ assigned # {}

\* the argument that holds the options JSON (0: the action takes none)
OptionsIndex(action) ==
    IF action \in {"attach", "isattached", "getvolumename"} THEN 2
    ELSE IF action = "mountdevice" THEN 4
    ELSE 0

UnparsableOptions(s) ==
    /\ ~TooFew(s)
    /\ OptionsIndex(s[1]) # 0
    /\ json_Unmarshal(s[OptionsIndex(s[1])]).err

UsageFailure(s) == TooFew(s) \/ Unsupported(s) \/ UnparsableOptions(s)

\* C3 as stated: exit code 0 exactly for success, 1 for operational failures
\* (manager assign/unassign/query failure, polling timeout, mount/unmount
\* failure), 2 only for too few arguments, unparsable options or an
\* unsupported action.
C3_ExitCodeConvention ==
    Done =>
        /\ ExitCode \in {0, 1, 2}
        /\ (ExitCode = 0) <=> (Status = "Success")
        /\ (ExitCode = 2) => UsageFailure(args)
        /\ (ExitCode # 0 /\ ~UsageFailure(args)) => ExitCode = 1

\* the failing input of C3: detach r0 nodeA, rejected by the manager
C3_DetachRejected ==
    /\ Done
    /\ args = <<"detach", "r0", "nodeA">>
    /\ <<"r0", "nodeA">> \in assigned
    /\ ExitCode = 2

\* the index of the first poll that reported a non-empty device path (0: none)
FirstPath ==
    IF \E i \in 1..Len(polls) : polls[i].path # ""
    THEN CHOOSE i \in 1..Len(polls) :
            polls[i].path # "" /\ \A j \in 1..(i - 1) : polls[j].path = ""
    ELSE 0

AttachRan == Done /\ Len(args) >= 3 /\ args[1] = "attach" /\ ~json_Unmarshal(args[2]).err

\* C4: attach whose assignment was accepted and whose polls reported an empty
\* path N-1 times and a non-empty path on the Nth (1 <= N <= 4) returns
\* Success with exactly that path as device and exit code 0, after one assign
\* request and exactly N device-path queries.
C4_AttachReturnsFirstPath ==
    (AttachRan /\ FirstPath # 0) =>
        /\ FirstPath <= attachMaxAttempts
        /\ \A j \in 1..(FirstPath - 1) : ~polls[j].err
        /\ Len(polls) = FirstPath
        /\ calls = <<"AssignRes">> \o [i \in 1..FirstPath |-> "queryDevicePath"]
        /\ Status = "Success"
        /\ Field(out[1].res, "device") = polls[FirstPath].path
        /\ Field(out[1].res, "device") = DevPathOf(resource.Name)
        /\ ExitCode = 0

\* C4 witness: the path appeared on the last permitted poll
C4_Witness ==
    /\ AttachRan
    /\ Len(polls) = attachMaxAttempts
    /\ FirstPath = attachMaxAttempts
    /\ Status = "Success"

\* every one of the first n polls reported an empty path and no error
AllEmpty(n) == Len(polls) >= n /\ \A i \in 1..n : ~polls[i].err /\ polls[i].path = ""

\* C5: attach whose assignment was accepted and whose 4 polls all reported an
\* empty path returns Failure naming the resource with exit code 1, issues no
\* fifth query, and leaves the resource assigned.
C5_AttachTimeout ==
    (AttachRan /\ AllEmpty(attachMaxAttempts)) =>
        /\ Len(polls) = attachMaxAttempts
        /\ Status = "Failure"
        /\ Message = flexAPIErr_Error("attach: unable to find device path for resource "
                                      \o Quote(resource.Name))
        /\ ExitCode = 1
        /\ "UnassignRes" \notin {calls[i] : i \in 1..Len(calls)}
        /\ Pair(resource) \in assigned

\* C5 witness: attach of r1 timed out although r1 was not assigned before
C5_Witness ==
    /\ AttachRan
    /\ AllEmpty(attachMaxAttempts)
    /\ resource.Name = "r1"
    /\ Pair(resource) \notin pre.assigned

IsAttachedRan ==
    Done /\ Len(args) >= 3 /\ args[1] = "isattached" /\ ~json_Unmarshal(args[2]).err

\* every one of the first n polls reported unassigned and no error
AllUnassigned(n) ==
    Len(polls) >= n /\ \A i \in 1..n : ~polls[i].err /\ ~polls[i].assigned

\* C6 as stated: isattached for resource r whose 4 polls all reported
\* unassigned returns Failure with the message exactly
\* `resource "r" not attached` and exit code 2.
C6_Original ==
    (IsAttachedRan /\ AllUnassigned(isAttachedMaxAttempts)) =>
        /\ Status = "Failure"
        /\ Message = "resource " \o Quote(resource.Name) \o " not attached"
        /\ ExitCode = 2

\* C6 amended: isattached for resource r whose 4 polls all reported unassigned
\* returns, after exactly those 4 polls, Failure with the message
\* `DRBD Flexvoume API: resource "r" not attached` and exit code 2; the
\* message is not the text of a package drbd error.
C6_NotAttached ==
    (IsAttachedRan /\ AllUnassigned(isAttachedMaxAttempts)) =>
        /\ Len(polls) = isAttachedMaxAttempts
        /\ Status = "Failure"
        /\ Message = "DRBD Flexvoume API: resource " \o Quote(resource.Name) \o " not attached"
        /\ Message # drbdErrorText("list-assignments", resource.Name)
        /\ ExitCode = 2
        /\ External = pre

\* C6 witness: isattached for r0 saw four polls reporting unassigned while r1
\* was assigned
C6_Witness ==
    /\ IsAttachedRan
    /\ AllUnassigned(isAttachedMaxAttempts)
    /\ resource.Name = "r0"
    /\ <<"r1", "nodeA">> \in assigned

\* C7: an invocation has returned exactly one envelope once it is done and
\* none before, and a Success envelope carries an empty message.
C7_OneEnvelopeNoMessageOnSuccess ==
    /\ Len(out) = (IF pc = "done" THEN 1 ELSE 0)
    /\ (Done /\ Status = "Success") => Message = ""

\* C7 witness: attach has returned Success with a device
C7_Witness ==
    /\ AttachRan
    /\ Status = "Success"
    /\ Field(out[1].res, "device") = "/dev/drbd1"

\* C8: attach, mountdevice, getvolumename and isattached with enough
\* arguments and unparsable options issue no manager and no mount call, leave
\* the external state as found, and return Failure with a message that ends
\* in the raw options string and exit code 2.
C8_UnparsableOptions ==
    (pc # "idle" /\ UnparsableOptions(args)) =>
        /\ calls = <<>>
        /\ polls = <<>>
        /\ External = pre
        /\ pc \in {"done", "attach", "mountDevice", "getVolumeName", "isAttached"}
        /\ Done =>
            /\ Status = "Failure"
            /\ Message = "DRBD Flexvoume API: couldn't parse options from "
                         \o args[OptionsIndex(args[1])]
            /\ ExitCode = 2

\* C8 witness: mountdevice with malformed options has returned while a
\* resource is assigned and its device is there
C8_Witness ==
    /\ Done
    /\ Len(args) >= 4
    /\ args[1] = "mountdevice"
    /\ args[4] = Opt_bad
    /\ devReady # {}

DetachRan == Done /\ Len(args) >= 3 /\ args[1] = "detach"

\* C9: a detach of a (resource, node) pair that is not assigned returns
\* Success with exit code 0 and leaves the pair unassigned; every detach that
\* returns Success leaves the pair unassigned, so a detach that follows it
\* succeeds as well.
C9_DetachIdempotent ==
    DetachRan =>
        /\ (<<args[2], args[3]>> \notin pre.assigned) =>
              /\ Status = "Success"
              /\ ExitCode = 0
              /\ assigned = pre.assigned
        /\ (Status = "Success") => <<args[2], args[3]>> \notin assigned

\* C9 witness: detach of r0, not assigned, has returned while r1 is assigned
\* (an attach ran before)
C9_Witness ==
    /\ DetachRan
    /\ args[2] = "r0"
    /\ <<"r0", "nodeA">> \notin pre.assigned
    /\ <<"r1", "nodeA">> \in assigned

UnmountRan == Done /\ Len(args) >= 2 /\ args[1] \in {"unmount", "unmountdevice"}

\* C10: unmount and unmountdevice of a path that is not mounted return
\* Success with exit code 0, run no umount and leave the mount table as it
\* was; every unmount that returns Success leaves the path unmounted, so an
\* unmount that follows it succeeds as well.
C10_UnmountIdempotent ==
    UnmountRan =>
        /\ (pre.mounts[args[2]] = "") =>
              /\ Status = "Success"
              /\ ExitCode = 0
              /\ "umount(8)" \notin {calls[i] : i \in 1..Len(calls)}
              /\ mounts = pre.mounts
        /\ (Status = "Success") => mounts[args[2]] = ""

\* C10 witness: unmountdevice of a path that is not mounted has returned
\* while the other path is mounted
C10_Witness ==
    /\ UnmountRan
    /\ args[1] = "unmountdevice"
    /\ pre.mounts[args[2]] = ""
    /\ \E p \in Paths : mounts[p] # ""

\* an unmount of a mounted path has succeeded
C10_WitnessMounted ==
    /\ UnmountRan
    /\ pre.mounts[args[2]] # ""
    /\ Status = "Success"

\* what the orchestrator recorded of an ended invocation
Returned(e) == Len(e.out) = 1
WasKilled(e) == Len(e.out) = 0
Succeeded(e) == Returned(e) /\ Field(e.out[1].res, "status") = "Success" /\ e.out[1].code = 0

MountDeviceRan ==
    Done /\ Len(args) >= 4 /\ args[1] = "mountdevice" /\ ~json_Unmarshal(args[4]).err

\* C11: a mountdevice that directly follows a successful mountdevice with
\* the same arguments returns Success with exit code 0, performs no mount and
\* changes nothing; the target path is then still mounted once, from the
\* resource's device.
C11_MountDeviceIdempotent ==
    (/\ MountDeviceRan
     /\ Len(hist) >= 1
     /\ hist[Len(hist)].args = args
     /\ Succeeded(hist[Len(hist)])) =>
        /\ Status = "Success"
        /\ ExitCode = 0
        /\ calls = <<"Mount">>
        /\ External = pre
        /\ mounts[args[2]] = DevPathOf(resource.Name)

\* C11 witness: the third mountdevice in a row has returned
C11_Witness ==
    /\ MountDeviceRan
    /\ Len(hist) >= 2
    /\ hist[Len(hist)].args = args
    /\ Succeeded(hist[Len(hist)])
    /\ hist[Len(hist) - 1].args = args
    /\ Succeeded(hist[Len(hist) - 1])

\* the position of an error among the answers to the polling queries
ErrorPolls == {i \in 1..Len(polls) : polls[i].err}

\* C12: in both polling loops a query that returns a manager error is the
\* last query of the invocation, whatever is left of the budget, and the
\* invocation returns a Failure envelope at once.
C12_ManagerErrorEndsPolling ==
    \A i \in ErrorPolls :
        /\ i = Len(polls)
        /\ Len(calls) = (IF args[1] = "attach" THEN 1 + i ELSE i)
        /\ Done
        /\ Status = "Failure"
        /\ ExitCode # 0

\* C12 witness: attach got an error on its second query, with two attempts left
C12_Witness ==
    /\ AttachRan
    /\ Len(polls) = 2
    /\ ErrorPolls = {2}

\* isattached got an error on its third query
C12_WitnessIsAttached ==
    /\ IsAttachedRan
    /\ Len(polls) = 3
    /\ ErrorPolls = {3}

\* how many requests of kind op the invocation has issued
Count(op) == Cardinality({i \in 1..Len(calls) : calls[i] = op})

\* a step of the running process
Step ==
    \/ init
    \/ waitForAttach
    \/ attach
    \/ attach_AssignRes
    \/ attach_WaitForDevPath
    \/ detach
    \/ detach_UnassignRes
    \/ mountDevice
    \/ mountDevice_Mount
    \/ unmountDevice
    \/ unmount
    \/ unmount_UnMount
    \/ getVolumeName
    \/ isAttached
    \/ isAttached_WaitForAssignment

\* the process keeps running as long as it has a step to take (every package
\* drbd call returns)
SpecLive == Spec /\ WF_vars(Step)

RequestBounds ==
    /\ Count("AssignRes") <= 1
    /\ Count("queryDevicePath") <= 4
    /\ Count("queryAssigned") <= 4
    /\ Count("UnassignRes") <= 1
    /\ Count("Mount") <= 1
    /\ Count("mount(8)") <= 1
    /\ Count("UnMount") <= 1
    /\ Count("umount(8)") <= 1
    /\ Len(calls) <= 5
    /\ (Count("queryDevicePath") > 0) => (args[1] = "attach" /\ Count("AssignRes") = 1)
    /\ (Count("queryAssigned") > 0) => (args[1] = "isattached" /\ Len(calls) <= 4)

\* C14: every invocation returns, having issued at most one assign request
\* and 4 device-path queries (attach), at most 4 assignment queries
\* (isattached), and at most one request of any other kind.
C14_Terminates ==
    /\ []RequestBounds
    /\ (pc \notin {"idle", "done"}) ~> (pc = "done")

\* C14 witness: attach has returned after its assign request and 4 queries
C14_Witness ==
    /\ AttachRan
    /\ Count("AssignRes") = 1
    /\ Count("queryDevicePath") = 4

AttachRunning == pc # "idle" /\ Len(args) >= 1 /\ args[1] = "attach"

\* C16: in attach the assign request comes first and only after the options
\* were parsed, the device-path queries come only after an assign request
\* that returned success, and Success comes only after a query; when the
\* manager rejects the assign request, attach issues no query and returns
\* Failure with exit code 1.
C16_AttachOrder ==
    AttachRunning =>
        /\ (calls # <<>>) =>
              /\ Len(args) >= 3
              /\ ~json_Unmarshal(args[2]).err
              /\ calls[1] = "AssignRes"
              /\ \A i \in 2..Len(calls) : calls[i] = "queryDevicePath"
        /\ (Len(calls) >= 2 \/ pc = "attach_WaitForDevPath") =>
              /\ Pair(resource) \in assigned
              /\ Len(polls) = Len(calls) - 1
        /\ (Done /\ Status = "Success") =>
              /\ Len(calls) >= 2
              /\ polls[Len(polls)].path # ""
              /\ Field(out[1].res, "device") = polls[Len(polls)].path
        /\ (Done /\ calls = <<"AssignRes">>) =>
              /\ fault
              /\ polls = <<>>
              /\ assigned = pre.assigned
              /\ Status = "Failure"
              /\ Message = flexAPIErr_Error("attach: failed to assign resource "
                                            \o Quote(resource.Name))
              /\ ExitCode = 1

\* C16 witness: the manager rejected the assign request of attach for r0
C16_Witness ==
    /\ AttachRunning
    /\ Done
    /\ calls = <<"AssignRes">>
    /\ resource.Name = "r0"
    /\ <<"r0", "nodeA">> \notin assigned

\* C17: the exit code is 0 exactly when the status is Success, and every
\* other envelope (Failure, Not supported) comes with exit code 1 or 2.
C17_ExitCodeMatchesStatus ==
    Done =>
        /\ ExitCode \in {0, 1, 2}
        /\ (ExitCode = 0) <=> (Status = "Success")
        /\ Status \in {"Success", "Failure", "Not supported"}

\* C17 witness: unmount has failed with exit code 1
C17_Witness ==
    /\ UnmountRan
    /\ Status = "Failure"
    /\ ExitCode = 1

C13_WitnessKilled ==
    /\ pc = "killed"
    /\ args[1] = "attach"
    /\ Len(polls) = 2
    /\ Pair(resource) \notin pre.assigned
    /\ Pair(resource) \in assigned

LifecycleStage(n) ==
    CASE n = 1 -> {"attach"}
      [] n = 2 -> {"mountdevice"}
      [] n = 3 -> {"unmount", "unmountdevice"}
      [] OTHER -> {"detach"}

\* the first n recorded invocations are the first n of the lifecycle, each
\* returned, with no package drbd call of theirs failing
LifecyclePrefix(n) ==
    /\ Len(hist) >= n
    /\ \A i \in 1..n :
         /\ hist[i].args[1] \in LifecycleStage(i)
         /\ Returned(hist[i])
         /\ ~hist[i].fault

\* C15: from nothing assigned and nothing mounted, attach, mountdevice,
\* unmount (or unmountdevice) and detach of one resource, in this order and
\* with no package drbd call failing, each return Success with exit code 0
\* and leave the resource unassigned and the path unmounted; between two
\* invocations the plugin keeps nothing.
C15_Lifecycle ==
    /\ \A n \in 1..4 : LifecyclePrefix(n) => Succeeded(hist[n])
    /\ (LifecyclePrefix(4) /\ Len(hist) = 4 /\ pc = "idle") =>
          /\ <<"r0", "nodeA">> \notin assigned
          /\ mounts[LifecyclePath] = ""
    /\ (LifecyclePrefix(2) /\ Len(hist) = 2 /\ pc = "idle") =>
          /\ <<"r0", "nodeA">> \in assigned
          /\ mounts[LifecyclePath] = "/dev/drbd0"
    /\ (pc = "idle") =>
          /\ args = <<>>
          /\ out = <<>>
          /\ calls = <<>>
          /\ polls = <<>>
          /\ resource = NoResource
          /\ fsType = ""

\* C15 witness: the four invocations have ended, the third as unmountdevice
C15_Witness ==
    /\ LifecyclePrefix(4)
    /\ Len(hist) = 4
    /\ pc = "idle"
    /\ hist[3].args[1] = "unmountdevice"
    /\ \A i \in 1..4 : Succeeded(hist[i])

====
